---------------------------- MODULE Spec2Model ----------------------------
(***************************************************************************)
(* Model of the Mistral generation pipeline of nlp-ai-platforms:           *)
(*   - MistralHandler (models/torchserve/custom_handler.py): initialize,   *)
(*     preprocess, inference, postprocess, handle;                         *)
(*   - chat_with_mistral (nlp-platform/api/app/services/mistral_client.py).*)
(*                                                                         *)
(* Conventions.  A text is a sequence of symbols (one symbol per token of  *)
(* text, the markers "<s>", "[INST]", "[/INST]", "</s>" being symbols of   *)
(* their own); the empty string is <<>>.  A Python dict is a function      *)
(* whose domain is its set of keys.  A float is kept as a scaled integer:  *)
(* temperature, top_p and repetition_penalty in tenths, inference_time in  *)
(* milliseconds, tokens_per_second in hundredths.  str(e) of an exception  *)
(* is the sequence of the parts of its message.  time.time() stamps are    *)
(* left out of the responses (they carry no behaviour).                    *)
(***************************************************************************)
EXTENDS Integers, Sequences, FiniteSets, TLC

VARIABLES
    initialized,        \* self.initialized
    config,             \* self.config (None, or a dict)
    generation_config,  \* self.generation_config (None, or the defaults)
    pc,                 \* position of the handler: idle, preprocess, inference, postprocess, done
    data,               \* the batch handle() was called with
    idx,                \* index of the item the running loop is at
    processed_requests, \* preprocess: the list built so far
    results,            \* inference: the list built so far
    processed_results,  \* postprocess: the list built so far
    ret,                \* what handle() gave its caller
    calls,              \* model.generate invocations of the running handle() call
    chat_pc,            \* position of chat_with_mistral
    chat_history,       \* its argument history
    chat_prompt,        \* its argument prompt
    chat_messages,      \* payload["messages"]
    chat_ret,           \* what chat_with_mistral gave its caller
    chat_posts,         \* requests.post calls of the running chat_with_mistral call
    c_pc,               \* sanitization: how far a decoded text went (0 raw, 1 inference, 2 postprocess)
    c_raw,              \* sanitization: the decoded text, character by character
    c_gen,              \* sanitization: result["generated_text"] of inference
    c_out,              \* sanitization: generated_text of the response
    ner_pc,             \* position of the /ner operation
    ner_text,           \* payload.text
    ner_posts,          \* requests.post calls of the running /ner operation
    ner_ret,            \* what ner_endpoint gave its caller
    w_text,             \* templating: the raw text
    w_once,             \* templating: the text after one application
    w_twice,            \* templating: the text after two applications
    w_pc                \* templating: how many applications were made

handler_vars == <<initialized, config, generation_config, pc, data, idx,
                  processed_requests, results, processed_results, ret, calls>>
chat_vars == <<chat_pc, chat_history, chat_prompt, chat_messages, chat_ret, chat_posts>>
wrap_vars == <<w_text, w_once, w_twice, w_pc>>
clean_vars == <<c_pc, c_raw, c_gen, c_out>>
ner_vars == <<ner_pc, ner_text, ner_posts, ner_ret>>
vars == <<handler_vars, chat_vars, wrap_vars, clean_vars, ner_vars>>

----------------------------------------------------------------------------
(* Bounds of the model *)

\* longest batch handle() is called with
MaxBatch == 3
\* longest chat history
MaxHistory == 3
\* longest raw text given to the prompt template
MaxTextLen == 3

----------------------------------------------------------------------------
(* Program constants *)

\* global defaults of preprocess (floats in tenths)
DefaultMaxNewTokens == 512
DefaultTemperature == 7
DefaultTopP == 9
DefaultTopK == 50
DefaultRepetitionPenalty == 11
DefaultMaxLength == 4096

\* declared bounds of the generation parameters (floats in tenths)
MinMaxNewTokens == 1
MaxMaxNewTokens == 2048
MinTemperature == 1
MaxTemperature == 20
MinTopP == 1
MaxTopP == 10
MinTopK == 1
MaxTopK == 100
MinRepetitionPenalty == 10
MaxRepetitionPenalty == 20

\* list.insert(0, x) in the place of list.append(x)
list_insert_front(l, x) == <<x>> \o l

\* list.append(x)
list_append(l, x) == Append(l, x)

\* Python's None
None == [none |-> TRUE]

\* dict.get(key, default)
Get(d, key, default) == IF key \in DOMAIN d THEN d[key] ELSE default

Min(a, b) == IF a <= b THEN a ELSE b

----------------------------------------------------------------------------
(* Texts *)

\* the instruction marker "<s>[INST]"
INST_MARKER == <<"<s>", "[INST]">>

\* str.startswith
startswith(text, prefix) ==
    /\ Len(text) >= Len(prefix)
    /\ SubSeq(text, 1, Len(prefix)) = prefix

\* formatted_text with the startswith test lost: the template is always applied
formatted_text_always(text) == <<"<s>", "[INST]", " ">> \o text \o <<" ", "[/INST]">>

\* preprocess: the Mistral conversation template
formatted_text(text) ==
    IF ~startswith(text, INST_MARKER)
    THEN <<"<s>", "[INST]", " ">> \o text \o <<" ", "[/INST]">>
    ELSE text

\* number of places where the instruction marker occurs in a text
marker_count(text) ==
    Cardinality({i \in 1..Len(text) : startswith(SubSeq(text, i, Len(text)), INST_MARKER)})

RECURSIVE lstrip(_)
\* str.lstrip
lstrip(text) ==
    IF text # <<>> /\ Head(text) = " " THEN lstrip(Tail(text)) ELSE text

RECURSIVE rstrip(_)
\* str.rstrip
rstrip(text) ==
    IF text # <<>> /\ text[Len(text)] = " "
    THEN rstrip(SubSeq(text, 1, Len(text) - 1))
    ELSE text

\* str.strip
strip(text) == rstrip(lstrip(text))

RECURSIVE replace(_, _)
\* str.replace(old, ""): one scan from the left, each occurrence of old met by
\* the scan dropped, what the removals bring together not scanned again
replace(text, old) ==
    IF text = <<>> THEN <<>>
    ELSE IF startswith(text, old)
         THEN replace(SubSeq(text, Len(old) + 1, Len(text)), old)
         ELSE <<Head(text)>> \o replace(Tail(text), old)

\* str.replace(old, ""), old a single symbol
remove(text, old) == replace(text, <<old>>)

\* postprocess: generated_text.replace("</s>", "").strip(), the marker being
\* the sequence eos of the text's symbols
sanitized(text, eos) == strip(replace(text, eos))

\* tokenizer(text, truncation=True, max_length=...): one token per symbol
tokenize(text, max_length) == SubSeq(text, 1, Min(Len(text), max_length))

\* tokenizer.decode(tokens, skip_special_tokens=True): the special end-of-sequence
\* token "EOS" is dropped; a literal "</s>" in the text is an ordinary symbol
decode(tokens) == SelectSeq(tokens, LAMBDA s : s # "EOS")

----------------------------------------------------------------------------
(* Generation parameters *)

\* generation_params with the lookups swapped: the configured value wins over the request's
generation_params_config_first(d, cfg) ==
    [max_new_tokens |-> Get(cfg, "max_new_tokens", Get(d, "max_new_tokens", DefaultMaxNewTokens)),
     temperature |-> Get(cfg, "temperature", Get(d, "temperature", DefaultTemperature)),
     top_p |-> Get(cfg, "top_p", Get(d, "top_p", DefaultTopP)),
     top_k |-> Get(cfg, "top_k", Get(d, "top_k", DefaultTopK)),
     repetition_penalty |-> Get(cfg, "repetition_penalty", Get(d, "repetition_penalty", DefaultRepetitionPenalty)),
     do_sample |-> Get(cfg, "do_sample", Get(d, "do_sample", TRUE))]

\* preprocess: the request's value, else the configured one, else the global default
generation_params(d, cfg) ==
    [max_new_tokens |-> Get(d, "max_new_tokens", Get(cfg, "max_new_tokens", DefaultMaxNewTokens)),
     temperature |-> Get(d, "temperature", Get(cfg, "temperature", DefaultTemperature)),
     top_p |-> Get(d, "top_p", Get(cfg, "top_p", DefaultTopP)),
     top_k |-> Get(d, "top_k", Get(cfg, "top_k", DefaultTopK)),
     repetition_penalty |-> Get(d, "repetition_penalty", Get(cfg, "repetition_penalty", DefaultRepetitionPenalty)),
     do_sample |-> Get(d, "do_sample", Get(cfg, "do_sample", TRUE))]

\* the bounds TextGenerationRequest declares for the generation parameters
within_bounds(p) ==
    /\ MinMaxNewTokens <= p.max_new_tokens /\ p.max_new_tokens <= MaxMaxNewTokens
    /\ MinTemperature <= p.temperature /\ p.temperature <= MaxTemperature
    /\ MinTopP <= p.top_p /\ p.top_p <= MaxTopP
    /\ MinTopK <= p.top_k /\ p.top_k <= MaxTopK
    /\ MinRepetitionPenalty <= p.repetition_penalty
    /\ p.repetition_penalty <= MaxRepetitionPenalty

----------------------------------------------------------------------------
(* Inputs *)

PARAM_KEYS == {"max_new_tokens", "temperature", "top_p", "top_k",
               "repetition_penalty", "do_sample"}

PlainText == <<"hi">>
WrappedText == <<"<s>", "[INST]", " ", "hi", " ", "[/INST]">>

\* the requests of a batch: a plain one under "body", one with an empty text,
\* one with no text, one already wrapped that overrides every parameter within
\* its bounds, one whose temperature (2.5) is out of bounds
Requests ==
    { [body |-> [text |-> PlainText]],
      [text |-> <<>>],
      [temperature |-> 15],
      [text |-> WrappedText, max_new_tokens |-> 2, temperature |-> 15, top_p |-> 5,
       top_k |-> 10, repetition_penalty |-> 12, do_sample |-> FALSE],
      [text |-> <<"yo">>, temperature |-> 25] }

RECURSIVE SeqsUpTo(_, _)
\* the sequences over S of length at most n
SeqsUpTo(S, n) ==
    IF n = 0 THEN {<<>>}
    ELSE LET shorter == SeqsUpTo(S, n - 1)
         IN shorter \cup {Append(s, x) : s \in {t \in shorter : Len(t) = n - 1}, x \in S}

Batches == SeqsUpTo(Requests, MaxBatch)

\* initialize: the configuration used when model_dir holds no config.json
DEFAULT_CONFIG ==
    [max_length |-> DefaultMaxLength, temperature |-> DefaultTemperature,
     top_p |-> DefaultTopP, top_k |-> DefaultTopK,
     repetition_penalty |-> DefaultRepetitionPenalty,
     max_new_tokens |-> DefaultMaxNewTokens]

\* contents of config.json when model_dir holds one
ConfigFiles == { [max_length |-> 4, temperature |-> 3, do_sample |-> FALSE] }

\* what model.generate appends to the prompt
Continuations == { <<"ok">>, <<" ", "ok", "</s>", "EOS">> }

\* time.time() - start_time, in milliseconds (time.time() is not monotonic)
Elapsed == { -1000, 0, 2000 }

----------------------------------------------------------------------------
(* Exceptions and error responses *)

\* PredictionException(f"{prefix}: {str(e)}")
PredictionException(prefix, e) == <<prefix>> \o e

\* the one-entry error list handle and postprocess return
error_response(e) ==
    << [status |-> "error", error |-> e, generated_text |-> <<>>,
        metadata |-> [model |-> "mistral-7b-instruct"]] >>

\* handle with its except clause lost: the exception reaches the caller
handle_except_reraise(e) == [kind |-> "raise", error |-> e]

\* handle: except Exception as e: return [error entry]
handle_except(e) == [kind |-> "return", value |-> error_response(e)]

\* postprocess: except Exception as e: return [error entry]
postprocess_except(e) ==
    [kind |-> "return", value |-> error_response(PredictionException("Erreur de post-processing", e))]

----------------------------------------------------------------------------
(* Metrics *)

\* round(): num/den rounded to the nearest integer, ties to the even one (den > 0)
round_half_even(num, den) ==
    LET q == num \div den
        r == num - q * den
    IN IF 2 * r < den THEN q
       ELSE IF 2 * r > den THEN q + 1
       ELSE IF q % 2 = 0 THEN q ELSE q + 1

\* round(n_tokens / inference_time, 2), in hundredths; inference_time # 0, in ms
tokens_per_second(n_tokens, elapsed_ms) ==
    IF elapsed_ms > 0
    THEN round_half_even(n_tokens * 100000, elapsed_ms)
    ELSE round_half_even(-(n_tokens * 100000), -elapsed_ms)

\* the slice taken from the start: the echoed prompt is kept
generated_tokens_with_prompt(outputs, input_length) == outputs

\* inference: outputs[0][input_length:]
generated_tokens(outputs, input_length) ==
    SubSeq(outputs, input_length + 1, Len(outputs))

\* inference: the metrics of one invocation (the division raises when the time is 0)
metrics_of(input_ids, outputs, elapsed_ms) ==
    [inference_time |-> elapsed_ms,
     input_tokens |-> Len(input_ids),
     output_tokens |-> Len(generated_tokens(outputs, Len(input_ids))),
     total_tokens |-> Len(outputs),
     tokens_per_second |->
        tokens_per_second(Len(generated_tokens(outputs, Len(input_ids))), elapsed_ms)]

\* inference: the result of one request, the model having returned outputs
inference_result(request, input_ids, outputs, elapsed_ms) ==
    [generated_text |-> strip(decode(generated_tokens(outputs, Len(input_ids)))),
     metrics |-> metrics_of(input_ids, outputs, elapsed_ms),
     parameters_used |-> request.generation_params]

\* postprocess: the response entry of one inference result
postprocess_entry(result) ==
    [status |-> "success",
     generated_text |-> sanitized(result.generated_text, <<"</s>">>),
     metadata |-> [model |-> "mistral-7b-instruct", version |-> "1.0",
                   metrics |-> result.metrics,
                   parameters |-> result.parameters_used]]

----------------------------------------------------------------------------
(* MistralHandler *)

\* the emptiness test lost: every text passes
not_text_never(text) == FALSE

\* preprocess: `not text`, the text being missing or empty
not_text(text) == text = <<>>

\* preprocess: the dict of a request ("body" when the request carries one)
request_data(request) ==
    IF "body" \in DOMAIN request THEN request["body"] ELSE request

\* preprocess: the entry appended for a request whose text is not empty
preprocess_entry(d, cfg) ==
    [text |-> formatted_text(Get(d, "text", <<>>)),
     generation_params |-> generation_params(d, cfg),
     original_data |-> d]

NoReturn == [kind |-> "none"]

HandlerInit ==
    /\ initialized = FALSE
    /\ config = None
    /\ generation_config = None
    /\ pc = "idle"
    /\ data = <<>>
    /\ idx = 0
    /\ processed_requests = <<>>
    /\ results = <<>>
    /\ processed_results = <<>>
    /\ ret = NoReturn
    /\ calls = <<>>

\* initialize: the GenerationConfig built from self.config
generation_defaults(cfg) == generation_params([x \in {} |-> 0], cfg)

\* initialize runs to its end: config.json or the default configuration is loaded
initialize ==
    /\ pc = "idle"
    /\ ~initialized
    /\ \E cfg \in ConfigFiles \cup {DEFAULT_CONFIG} :
        /\ config' = cfg
        /\ generation_config' = generation_defaults(cfg)
    /\ initialized' = TRUE
    /\ UNCHANGED <<pc, data, idx, processed_requests, results, processed_results, ret, calls>>
    /\ UNCHANGED <<chat_vars, wrap_vars, clean_vars, ner_vars>>

\* initialize with self.initialized = True moved to its first line: the flag is
\* set although the tokenizer or the model fails to load
initialize_raises_flag_first ==
    /\ pc = "idle"
    /\ ~initialized
    /\ initialized' = TRUE
    /\ \E cfg \in ConfigFiles \cup {DEFAULT_CONFIG} : config' = cfg
    /\ UNCHANGED generation_config
    /\ UNCHANGED <<pc, data, idx, processed_requests, results, processed_results, ret, calls>>
    /\ UNCHANGED <<chat_vars, wrap_vars, clean_vars, ner_vars>>

\* initialize raises: before the configuration is loaded (no model_dir), or after
\* it while the tokenizer or the model is loaded; self.initialized is not set
initialize_raises ==
    /\ pc = "idle"
    /\ ~initialized
    /\ \/ UNCHANGED config
       \/ \E cfg \in ConfigFiles \cup {DEFAULT_CONFIG} : config' = cfg
    /\ UNCHANGED <<initialized, generation_config>>
    /\ UNCHANGED <<pc, data, idx, processed_requests, results, processed_results, ret, calls>>
    /\ UNCHANGED <<chat_vars, wrap_vars, clean_vars, ner_vars>>

\* handle is called with a batch: the initialized test, then preprocess starts
handle ==
    /\ pc = "idle"
    /\ \E d \in Batches : data' = d
    /\ calls' = <<>>
    /\ processed_requests' = <<>>
    /\ results' = <<>>
    /\ processed_results' = <<>>
    /\ IF ~initialized
       THEN /\ ret' = handle_except(<<"Modele non initialise">>)
            /\ pc' = "done"
            /\ idx' = 0
       ELSE /\ ret' = NoReturn
            /\ pc' = "preprocess"
            /\ idx' = 1
    /\ UNCHANGED <<initialized, config, generation_config>>
    /\ UNCHANGED <<chat_vars, wrap_vars, clean_vars, ner_vars>>

\* the return of preprocess moved into its loop: it returns after the first request
preprocess_over_after_first(i, requests) == i > Min(1, Len(requests))

\* preprocess: `for request in requests` is over, turn i being the next
preprocess_over(i, requests) == i > Len(requests)

\* preprocess: one turn of its loop, or its return once the loop is over
preprocess_body ==
    /\ pc = "preprocess"
    /\ IF preprocess_over(idx, data)
       THEN /\ pc' = "inference"
            /\ idx' = 1
            /\ UNCHANGED <<processed_requests, ret>>
       ELSE LET d == request_data(data[idx])
            IN IF not_text(Get(d, "text", <<>>))
               THEN /\ ret' = handle_except(PredictionException("Erreur de preprocessing",
                                 <<"Champ 'text' requis dans la requete">>))
                    /\ pc' = "done"
                    /\ UNCHANGED <<processed_requests, idx>>
               ELSE /\ processed_requests' = list_append(processed_requests, preprocess_entry(d, config))
                    /\ idx' = idx + 1
                    /\ UNCHANGED <<pc, ret>>
    /\ UNCHANGED <<data, results, processed_results, calls>>
    /\ UNCHANGED <<chat_vars, wrap_vars, clean_vars, ner_vars>>

\* preprocess keeping the request's dict as the handler's configuration
preprocess_storing_request ==
    /\ preprocess_body
    /\ config' = IF idx > Len(data) THEN config ELSE request_data(data[idx])
    /\ UNCHANGED <<initialized, generation_config>>

\* preprocess reads self.config and assigns no attribute of the handler
preprocess ==
    /\ preprocess_body
    /\ UNCHANGED <<initialized, config, generation_config>>

\* a retry in the place of the raise: the loop stays at the failed request
inference_error_pc_retry == "inference"

\* inference: except Exception: raise PredictionException; handle returns the
\* error list, and no loop runs the request again
inference_error_pc == "done"

\* inference: one turn of its loop (tokenize, generate, decode, metrics), or its
\* return once the loop is over
inference ==
    /\ pc = "inference"
    /\ IF idx > Len(processed_requests)
       THEN /\ pc' = "postprocess"
            /\ idx' = 1
            /\ UNCHANGED <<results, ret, calls>>
       ELSE LET request == processed_requests[idx]
                input_ids == tokenize(request.text, Get(config, "max_length", DefaultMaxLength))
            IN \/ \* model.generate raises
                  /\ calls' = Append(calls, [item |-> idx, text |-> request.text,
                                             params |-> request.generation_params,
                                             outputs |-> <<>>, elapsed |-> 0, raised |-> TRUE])
                  /\ ret' = handle_except(PredictionException("Erreur d'inference",
                                 <<"generate">>))
                  /\ pc' = inference_error_pc
                  /\ UNCHANGED <<results, idx>>
               \/ \* model.generate returns the prompt and its continuation
                  \E cont \in Continuations, elapsed \in Elapsed :
                     LET outputs == input_ids \o cont
                     IN /\ Len(cont) <= request.generation_params.max_new_tokens
                        /\ calls' = Append(calls, [item |-> idx, text |-> request.text,
                                                   params |-> request.generation_params,
                                                   outputs |-> outputs, elapsed |-> elapsed,
                                                   raised |-> FALSE])
                        /\ IF elapsed = 0
                           THEN /\ ret' = handle_except(PredictionException("Erreur d'inference",
                                              <<"float division by zero">>))
                                /\ pc' = inference_error_pc
                                /\ UNCHANGED <<results, idx>>
                           ELSE /\ results' = list_append(results,
                                        inference_result(request, input_ids, outputs, elapsed))
                                /\ idx' = idx + 1
                                /\ UNCHANGED <<pc, ret>>
    /\ UNCHANGED <<data, processed_requests, processed_results>>
    /\ UNCHANGED <<initialized, config, generation_config>>
    /\ UNCHANGED <<chat_vars, wrap_vars, clean_vars, ner_vars>>

\* postprocess: one turn of its loop, or the return of handle once it is over
postprocess ==
    /\ pc = "postprocess"
    /\ IF idx > Len(results)
       THEN /\ ret' = [kind |-> "return", value |-> processed_results]
            /\ pc' = "done"
            /\ UNCHANGED <<processed_results, idx>>
       ELSE \/ /\ processed_results' = list_append(processed_results, postprocess_entry(results[idx]))
               /\ idx' = idx + 1
               /\ UNCHANGED <<pc, ret>>
            \/ \* a fault while the entry is built
               /\ ret' = postprocess_except(<<"fault">>)
               /\ pc' = "done"
               /\ UNCHANGED <<processed_results, idx>>
    /\ UNCHANGED <<data, processed_requests, results, calls>>
    /\ UNCHANGED <<initialized, config, generation_config>>
    /\ UNCHANGED <<chat_vars, wrap_vars, clean_vars, ner_vars>>

\* the caller has the return value; the locals of the call are gone
handle_returned ==
    /\ pc = "done"
    /\ pc' = "idle"
    /\ data' = <<>>
    /\ idx' = 0
    /\ processed_requests' = <<>>
    /\ results' = <<>>
    /\ processed_results' = <<>>
    /\ ret' = NoReturn
    /\ calls' = <<>>
    /\ UNCHANGED <<initialized, config, generation_config>>
    /\ UNCHANGED <<chat_vars, wrap_vars, clean_vars, ner_vars>>

----------------------------------------------------------------------------
(* chat_with_mistral *)

\* the words of a conversation
Contents == {"hi", "hello", "how are you", "fine"}

\* the role given by index parity, shifted by one turn
role_of_turn_shifted(i) == IF i % 2 = 0 THEN "assistant" ELSE "user"

\* the role of the history turn of index i (from 0): "user" if idx % 2 == 0 else "assistant"
role_of_turn(i) == IF i % 2 = 0 THEN "user" ELSE "assistant"

\* the messages chat_with_mistral builds: the history turns, then the prompt
messages_of(prompt, history) ==
    [i \in 1..(Len(history) + 1) |->
        IF i <= Len(history)
        THEN [role |-> role_of_turn(i - 1), content |-> history[i]]
        ELSE [role |-> "user", content |-> prompt]]

ChatIdle ==
    /\ chat_pc = "idle"
    /\ chat_history = <<>>
    /\ chat_prompt = ""
    /\ chat_messages = <<>>
    /\ chat_ret = NoReturn
    /\ chat_posts = 0

\* chat_with_mistral is called; it builds the messages of its payload
chat_build ==
    /\ chat_pc = "idle"
    /\ \E h \in SeqsUpTo(Contents, MaxHistory), p \in Contents :
        /\ chat_history' = h
        /\ chat_prompt' = p
        /\ chat_messages' = messages_of(p, h)
    /\ chat_pc' = "post"
    /\ chat_ret' = NoReturn
    /\ chat_posts' = 0
    /\ UNCHANGED <<handler_vars, wrap_vars, clean_vars, ner_vars>>

\* requests.post answers: the content on status 200, an exception otherwise
chat_post ==
    /\ chat_pc = "post"
    /\ \E status_code \in {200, 500}, reply \in Contents :
        chat_ret' = IF status_code # 200
                    THEN [kind |-> "raise", error |-> <<"Mistral error", reply>>]
                    ELSE [kind |-> "return", value |-> reply]
    /\ chat_posts' = chat_posts + 1
    /\ chat_pc' = "done"
    /\ UNCHANGED <<chat_history, chat_prompt, chat_messages>>
    /\ UNCHANGED <<handler_vars, wrap_vars, clean_vars, ner_vars>>

\* the caller has the outcome
chat_returned ==
    /\ chat_pc = "done"
    /\ chat_pc' = "idle"
    /\ chat_history' = <<>>
    /\ chat_prompt' = ""
    /\ chat_messages' = <<>>
    /\ chat_ret' = NoReturn
    /\ chat_posts' = 0
    /\ UNCHANGED <<handler_vars, wrap_vars, clean_vars, ner_vars>>

----------------------------------------------------------------------------
(* The prompt template as a function of the raw text *)

\* the symbols of the raw texts
Symbols == {"<s>", "[INST]", "hi", " "}

WrapIdle ==
    /\ w_pc = 0
    /\ w_text = <<>>
    /\ w_once = <<>>
    /\ w_twice = <<>>

\* a text that is not empty is given to the template
wrap_once ==
    /\ w_pc = 0
    /\ \E t \in SeqsUpTo(Symbols, MaxTextLen) \ {<<>>} :
        /\ w_text' = t
        /\ w_once' = formatted_text(t)
    /\ w_pc' = 1
    /\ UNCHANGED w_twice
    /\ UNCHANGED <<handler_vars, chat_vars, clean_vars, ner_vars>>

\* the prompt is given to the template again
wrap_twice ==
    /\ w_pc = 1
    /\ w_twice' = formatted_text(w_once)
    /\ w_pc' = 2
    /\ UNCHANGED <<w_text, w_once>>
    /\ UNCHANGED <<handler_vars, chat_vars, clean_vars, ner_vars>>

wrap_reset ==
    /\ w_pc = 2
    /\ w_pc' = 0
    /\ w_text' = <<>>
    /\ w_once' = <<>>
    /\ w_twice' = <<>>
    /\ UNCHANGED <<handler_vars, chat_vars, clean_vars, ner_vars>>

----------------------------------------------------------------------------
(* The sanitization of a decoded text, character by character *)

\* longest decoded text, in pieces
MaxPieces == 3

\* the end-of-sequence marker "</s>" as characters
EOS_TEXT == <<"<", "/", "s", ">">>

\* the pieces the decoded texts are made of
Pieces == { <<"<">>, <<"/", "s", ">">>, EOS_TEXT, <<" ">>, <<"a">> }

RECURSIVE Flatten(_)
\* the text a sequence of pieces spells
Flatten(pieces) ==
    IF pieces = <<>> THEN <<>> ELSE Head(pieces) \o Flatten(Tail(pieces))

\* the decoded texts
DecodedTexts == { Flatten(ps) : ps \in SeqsUpTo(Pieces, MaxPieces) }

\* old occurs in text
contains(text, old) ==
    \E i \in 1..Len(text) : startswith(SubSeq(text, i, Len(text)), old)

CleanIdle ==
    /\ c_pc = 0
    /\ c_raw = <<>>
    /\ c_gen = <<>>
    /\ c_out = <<>>

\* inference: the decoded text of an invocation, stripped
clean_inference ==
    /\ c_pc = 0
    /\ \E t \in DecodedTexts :
        /\ c_raw' = t
        /\ c_gen' = strip(t)
    /\ c_pc' = 1
    /\ UNCHANGED c_out
    /\ UNCHANGED <<handler_vars, chat_vars, wrap_vars, ner_vars>>

\* postprocess: the marker removed, the text stripped
clean_postprocess ==
    /\ c_pc = 1
    /\ c_out' = sanitized(c_gen, EOS_TEXT)
    /\ c_pc' = 2
    /\ UNCHANGED <<c_raw, c_gen>>
    /\ UNCHANGED <<handler_vars, chat_vars, wrap_vars, ner_vars>>

clean_reset ==
    /\ c_pc = 2
    /\ c_pc' = 0
    /\ c_raw' = <<>>
    /\ c_gen' = <<>>
    /\ c_out' = <<>>
    /\ UNCHANGED <<handler_vars, chat_vars, wrap_vars, ner_vars>>

----------------------------------------------------------------------------
(* The /ner operation: ner_endpoint and get_ner *)

\* longest text given to /ner, in characters
MaxNerLen == 3

\* the characters of the texts given to /ner
NerChars == {"a", "e_acute"}

\* the UTF-8 bytes of a character
utf8_bytes(c) == IF c = "a" THEN <<97>> ELSE <<195, 169>>

RECURSIVE utf8_encode(_)
\* str.encode("utf-8")
utf8_encode(text) ==
    IF text = <<>> THEN <<>> ELSE utf8_bytes(Head(text)) \o utf8_encode(Tail(text))

\* get_ner: the body of its POST
get_ner_data(text) == utf8_encode(text)

\* get_ner: f"{TORCHSERVE_HOST}/predictions/{MODEL_NAME}", MODEL_NAME "ner"
NER_ENDPOINT == "/predictions/ner"

\* the bodies the backend answers with: two JSON values, one text that is not JSON
NerBodies ==
    { [is_json |-> TRUE, json |-> <<>>, text |-> "[]"],
      [is_json |-> TRUE, json |-> <<[entity |-> "LOC", word |-> "a"]>>, text |-> "[{...}]"],
      [is_json |-> FALSE, json |-> None, text |-> "unavailable"] }

\* what requests.post gives: an answer with a status, or an exception when the
\* backend cannot be reached
NerAnswers ==
    { [reached |-> TRUE, status_code |-> c, body |-> b] : c \in {200, 404, 500}, b \in NerBodies }
    \cup { [reached |-> FALSE] }

\* get_ner with the status test lost
get_ner_unchecked(answer) ==
    IF ~answer.reached
    THEN [kind |-> "raise", error |-> <<"ConnectionError">>]
    ELSE IF ~answer.body.is_json
    THEN [kind |-> "raise", error |-> <<"JSONDecodeError">>]
    ELSE [kind |-> "return", value |-> answer.body.json]

\* get_ner, from the answer of its POST: an exception on a status other than
\* 200 (or when response.json() cannot parse the body), else the parsed body
get_ner(answer) ==
    IF ~answer.reached
    THEN [kind |-> "raise", error |-> <<"ConnectionError">>]
    ELSE IF answer.status_code # 200
    THEN [kind |-> "raise", error |-> <<"TorchServe error", answer.body.text>>]
    ELSE IF ~answer.body.is_json
    THEN [kind |-> "raise", error |-> <<"JSONDecodeError">>]
    ELSE [kind |-> "return", value |-> answer.body.json]

\* ner_endpoint: {"entities": get_ner(...)}, or HTTPException(500) on any exception
ner_endpoint(outcome) ==
    IF outcome.kind = "raise"
    THEN [kind |-> "http_error", status_code |-> 500, detail |-> outcome.error]
    ELSE [kind |-> "return", value |-> [entities |-> outcome.value]]

NerIdle ==
    /\ ner_pc = "idle"
    /\ ner_text = <<>>
    /\ ner_posts = <<>>
    /\ ner_ret = NoReturn

\* POST /ner: ner_endpoint calls get_ner, which posts the text to the backend
ner_call ==
    /\ ner_pc = "idle"
    /\ \E t \in SeqsUpTo(NerChars, MaxNerLen) :
        /\ ner_text' = t
        /\ ner_posts' = << [url |-> NER_ENDPOINT, data |-> get_ner_data(t), answer |-> None] >>
    /\ ner_pc' = "post"
    /\ ner_ret' = NoReturn
    /\ UNCHANGED <<handler_vars, chat_vars, wrap_vars, clean_vars>>

\* requests.post is over: get_ner and ner_endpoint run to their end
ner_answer ==
    /\ ner_pc = "post"
    /\ \E answer \in NerAnswers :
        /\ ner_posts' = [ner_posts EXCEPT ![Len(ner_posts)].answer = answer]
        /\ ner_ret' = ner_endpoint(get_ner(answer))
    /\ ner_pc' = "done"
    /\ UNCHANGED ner_text
    /\ UNCHANGED <<handler_vars, chat_vars, wrap_vars, clean_vars>>

\* the caller has the outcome
ner_returned ==
    /\ ner_pc = "done"
    /\ ner_pc' = "idle"
    /\ ner_text' = <<>>
    /\ ner_posts' = <<>>
    /\ ner_ret' = NoReturn
    /\ UNCHANGED <<handler_vars, chat_vars, wrap_vars, clean_vars>>

----------------------------------------------------------------------------
(* Specifications *)

Init == HandlerInit /\ ChatIdle /\ WrapIdle /\ CleanIdle /\ NerIdle

\* the sanitization applied to every decoded text
CleanNext ==
    \/ clean_inference
    \/ clean_postprocess
    \/ clean_reset

CleanSpec == Init /\ [][CleanNext]_vars

\* the /ner operation, call after call
NerNext ==
    \/ ner_call
    \/ ner_answer
    \/ ner_returned

NerSpec == Init /\ [][NerNext]_vars

\* the handler: initialize, then handle calls one after the other
Next ==
    \/ initialize
    \/ initialize_raises
    \/ handle
    \/ preprocess
    \/ inference
    \/ postprocess
    \/ handle_returned

Spec == Init /\ [][Next]_vars

\* chat_with_mistral, call after call
ChatNext ==
    \/ chat_build
    \/ chat_post
    \/ chat_returned

ChatSpec == Init /\ [][ChatNext]_vars

\* the prompt template applied once and twice to every raw text
WrapNext ==
    \/ wrap_once
    \/ wrap_twice
    \/ wrap_reset

WrapSpec == Init /\ [][WrapNext]_vars

\* the three operations, one at a time (they share no state: what one does
\* while another runs is what it does alone)
PlatformNext ==
    \/ (chat_pc = "idle" /\ ner_pc = "idle" /\ Next)
    \/ (pc = "idle" /\ ner_pc = "idle" /\ ChatNext)
    \/ (pc = "idle" /\ chat_pc = "idle" /\ NerNext)

PlatformSpec == Init /\ [][PlatformNext]_vars

----------------------------------------------------------------------------
(* Properties of handle *)

\* the text of item i of the batch, "" when the item has none
item_text(i) == Get(request_data(data[i]), "text", <<>>)

\* the handler is initialized and its handle call is over
HandleDone == pc = "done" /\ initialized

\* every entry of a response is an error entry
AllErrors(value) ==
    /\ value # <<>>
    /\ \A i \in 1..Len(value) :
        /\ value[i].status = "error"
        /\ "error" \in DOMAIN value[i]
        /\ value[i].error # <<>>
        /\ value[i].generated_text = <<>>

\* a stage of the finished call failed: the handler was not initialized, or one
\* of the three loops stopped before the end of its list
StageFailed ==
    /\ pc = "done"
    /\ \/ ~initialized
       \/ Len(processed_requests) < Len(data)
       \/ Len(results) < Len(processed_requests)
       \/ Len(processed_results) < Len(results)

\* C1: in a batch where the items of some positions fail (an empty or missing
\* text) and the others are valid, handle returns one entry per item, an error
\* entry at each failing position and a success entry at every other one.
BatchFailureIsolation ==
    (HandleDone /\ \E i \in 1..Len(data) : item_text(i) = <<>>) =>
        /\ ret.kind = "return"
        /\ Len(ret.value) = Len(data)
        /\ \A i \in 1..Len(data) :
            ret.value[i].status = IF item_text(i) = <<>> THEN "error" ELSE "success"

\* C2: a request with a generation parameter outside its declared bound is
\* rejected before the model is invoked for it, so every parameter set that
\* reaches model.generate is within the bounds.
ParameterBoundsAdmission ==
    /\ \A k \in 1..Len(calls) : within_bounds(calls[k].params)
    /\ (HandleDone /\ \E i \in 1..Len(data) :
            /\ item_text(i) # <<>>
            /\ ~within_bounds(generation_params(request_data(data[i]), config)))
        => (ret.kind = "return" /\ AllErrors(ret.value))

\* C3: handle never lets an exception reach its caller, and when a stage failed
\* (handler not initialized, preprocessing, inference, postprocessing) every
\* entry it returns has status "error", an error string and an empty generated_text.
ErrorContainment ==
    pc = "done" =>
        /\ ret.kind = "return"
        /\ StageFailed => AllErrors(ret.value)

\* C3 witness: a fault while postprocess builds an entry ended a call as an error response
ErrorContainmentWitness ==
    /\ HandleDone
    /\ Len(processed_results) < Len(results)
    /\ ret.kind = "return"
    /\ ret.value[1].status = "error"

\* C4: an invocation whose measured time is zero or negative still yields a
\* result, whose metrics omit tokens_per_second, and a success entry; with a
\* positive time tokens_per_second is output_tokens divided by the time.
ThroughputOmittedAtZeroTime ==
    \A k \in 1..Len(calls) :
        ~calls[k].raised =>
            /\ Len(results) >= k
            /\ IF calls[k].elapsed <= 0
               THEN "tokens_per_second" \notin DOMAIN results[k].metrics
               ELSE results[k].metrics.tokens_per_second * calls[k].elapsed
                        = results[k].metrics.output_tokens * 100000
            /\ (pc = "done" /\ Len(processed_results) = Len(data)) =>
                    ret.value[k].status = "success"

\* C7: when every request of a batch of N succeeds, handle returns N entries and
\* entry i is the result of request i: the model was invoked i-th on request i's
\* prompt with request i's parameters, the generated text is the decoded and
\* cleaned continuation of that invocation, and metadata.parameters are the
\* parameters resolved for request i.
OrderPreservingFanIn ==
    (HandleDone /\ ~StageFailed) =>
        /\ ret.kind = "return"
        /\ Len(ret.value) = Len(data)
        /\ Len(calls) = Len(data)
        /\ \A i \in 1..Len(data) :
            LET d == request_data(data[i])
                prompt == formatted_text(item_text(i))
                input_ids == tokenize(prompt, Get(config, "max_length", DefaultMaxLength))
                raw == SubSeq(calls[i].outputs, Len(input_ids) + 1, Len(calls[i].outputs))
            IN /\ calls[i].item = i
               /\ calls[i].text = prompt
               /\ calls[i].params = generation_params(d, config)
               /\ ret.value[i].status = "success"
               /\ ret.value[i].metadata.parameters = generation_params(d, config)
               /\ ret.value[i].metadata.metrics.input_tokens = Len(input_ids)
               /\ ret.value[i].generated_text = strip(remove(strip(decode(raw)), "</s>"))

\* C7 witness: a batch of three requests, not all the same, all succeeded
OrderPreservingFanInWitness ==
    /\ HandleDone /\ ~StageFailed
    /\ Len(data) = 3
    /\ data[1] # data[2]
    /\ data[2] # data[3]
    /\ ret.kind = "return"
    /\ Len(ret.value) = 3

\* the global defaults of preprocess, by key
GlobalDefaults ==
    [max_new_tokens |-> DefaultMaxNewTokens, temperature |-> DefaultTemperature,
     top_p |-> DefaultTopP, top_k |-> DefaultTopK,
     repetition_penalty |-> DefaultRepetitionPenalty, do_sample |-> TRUE]

\* C8: each generation parameter resolves to the request's value when the
\* request supplies the key (unchanged, whatever the value), else to the
\* configured value when the configuration has the key, else to the global default.
ParameterResolutionOrder ==
    \A k \in 1..Len(processed_requests) :
        LET d == request_data(data[k])
            p == processed_requests[k].generation_params
        IN \A key \in PARAM_KEYS :
            p[key] = IF key \in DOMAIN d THEN d[key]
                     ELSE IF key \in DOMAIN config THEN config[key]
                     ELSE GlobalDefaults[key]

\* C8 witness: under a config.json that sets temperature and not top_k, one
\* request supplied its temperature (1.5, within bounds) and another supplied none
ParameterResolutionOrderWitness ==
    /\ pc = "inference"
    /\ "temperature" \in DOMAIN config
    /\ "top_k" \notin DOMAIN config
    /\ Len(processed_requests) >= 2
    /\ "temperature" \in DOMAIN request_data(data[1])
    /\ processed_requests[1].generation_params.temperature = 15
    /\ "temperature" \notin DOMAIN request_data(data[2])
    /\ processed_requests[2].generation_params.temperature = config.temperature
    /\ processed_requests[2].generation_params.top_k = DefaultTopK

\* C9: the model is never invoked for a request whose text is missing or empty;
\* a batch holding such a request is rejected by preprocess before the first
\* invocation, with the validation error, and preprocess is not run again.
EmptyTextAdmission ==
    /\ \A k \in 1..Len(calls) : item_text(calls[k].item) # <<>>
    /\ (initialized /\ \E i \in 1..Len(data) : item_text(i) = <<>>) =>
        /\ calls = <<>>
        /\ pc \in {"preprocess", "done"}
        /\ pc = "done" =>
            /\ ret.kind = "return"
            /\ AllErrors(ret.value)
            /\ ret.value[1].error = <<"Erreur de preprocessing",
                                      "Champ 'text' requis dans la requete">>

\* C9 witness: a batch whose first item is valid and whose second has no text
\* or an empty one was rejected
EmptyTextAdmissionWitness ==
    /\ HandleDone
    /\ Len(data) >= 2
    /\ item_text(1) # <<>>
    /\ item_text(2) = <<>>
    /\ ret.kind = "return"
    /\ ret.value[1].status = "error"
    /\ calls = <<>>

\* C10: no step of a handle call, failed or not, changes the handler's
\* configuration, generation defaults or initialized flag, and every handle
\* call starts from empty per-call lists: a call sees what a call on a freshly
\* initialized handler sees.
RequestIndependence ==
    [][ (pc # "idle" \/ pc' # "idle") =>
            /\ UNCHANGED <<initialized, config, generation_config>>
            /\ (pc = "idle" =>
                    /\ processed_requests' = <<>>
                    /\ results' = <<>>
                    /\ processed_results' = <<>>
                    /\ calls' = <<>>) ]_vars

\* C10 witness: a failed handle call is over on an initialized handler
RequestIndependenceWitness ==
    /\ HandleDone
    /\ StageFailed
    /\ ret.kind = "return"
    /\ generation_config = generation_defaults(config)

----------------------------------------------------------------------------
(* Properties of the prompt template *)

\* C5: a text that begins with the instruction marker passes through unchanged,
\* the template applied to a prompt it produced returns that prompt, and the
\* template adds at most one marker, none to a text that begins with one.
IdempotentTemplating ==
    /\ w_pc >= 1 =>
        /\ startswith(w_once, INST_MARKER)
        /\ startswith(w_text, INST_MARKER) => w_once = w_text
        /\ marker_count(w_once) <= marker_count(w_text) + 1
        /\ startswith(w_text, INST_MARKER) => marker_count(w_once) = marker_count(w_text)
    /\ w_pc = 2 =>
        /\ w_twice = w_once
        /\ marker_count(w_twice) = marker_count(w_once)

\* C5 witness: a text without the marker was wrapped, and wrapped again
IdempotentTemplatingWitness ==
    /\ w_pc = 2
    /\ ~startswith(w_text, INST_MARKER)
    /\ w_once # w_text
    /\ w_twice = w_once
    /\ marker_count(w_twice) = 1

----------------------------------------------------------------------------
(* Properties of chat_with_mistral *)

\* the messages carry the history in order, then the prompt as a user turn
ChatCarriesHistory ==
    /\ Len(chat_messages) = Len(chat_history) + 1
    /\ \A i \in 1..Len(chat_history) : chat_messages[i].content = chat_history[i]
    /\ chat_messages[Len(chat_messages)].role = "user"
    /\ chat_messages[Len(chat_messages)].content = chat_prompt

\* the roles of the messages alternate, starting with "user"
ChatRolesAlternate ==
    /\ chat_messages[1].role = "user"
    /\ \A i \in 1..(Len(chat_messages) - 1) :
        chat_messages[i].role # chat_messages[i + 1].role

\* C6 as stated: for every history and new message the messages sent are the
\* history turns and the new user turn, and the roles of the whole list
\* alternate user/assistant starting with "user".
ChatHistoryAlternates ==
    chat_pc \in {"post", "done"} => (ChatCarriesHistory /\ ChatRolesAlternate)

\* C6 amended: the messages sent are the history turns in order, the turn of
\* index i (from 0) with role "user" when i is even and "assistant" when odd,
\* then the new message as a "user" turn; the roles of the whole list alternate
\* exactly when the history has an even length.
ChatHistoryRoundTrip ==
    chat_pc \in {"post", "done"} =>
        /\ ChatCarriesHistory
        /\ \A i \in 1..Len(chat_history) :
            chat_messages[i].role = IF (i - 1) % 2 = 0 THEN "user" ELSE "assistant"
        /\ ChatRolesAlternate <=> (Len(chat_history) % 2 = 0)

\* C6 witness: history ["hi", "hello", "how are you"] and message "fine" give
\* four turns with roles user, assistant, user, user
ChatHistoryRoundTripWitness ==
    /\ chat_pc = "post"
    /\ chat_history = <<"hi", "hello", "how are you">>
    /\ chat_prompt = "fine"
    /\ Len(chat_messages) = 4
    /\ chat_messages[1].role = "user"
    /\ chat_messages[2].role = "assistant"
    /\ chat_messages[3].role = "user"
    /\ chat_messages[4] = [role |-> "user", content |-> "fine"]

----------------------------------------------------------------------------
(* Properties of the sanitization *)

\* C11: the postprocessed generated_text holds no "</s>" and has no blank at
\* either end, and a decoded text with no marker and no blank at either end
\* comes out unchanged.
Sanitization ==
    c_pc = 2 =>
        /\ ~contains(c_out, EOS_TEXT)
        /\ c_out # <<>> => (Head(c_out) # " " /\ c_out[Len(c_out)] # " ")
        /\ (~contains(c_raw, EOS_TEXT) /\ strip(c_raw) = c_raw) => c_out = c_raw

----------------------------------------------------------------------------
(* Properties of the /ner operation *)

RECURSIVE utf8_decode(_)
\* bytes.decode("utf-8") of the bytes of the characters of the texts
utf8_decode(bytes) ==
    IF bytes = <<>> THEN <<>>
    ELSE IF Head(bytes) < 128
         THEN <<"a">> \o utf8_decode(Tail(bytes))
         ELSE <<"e_acute">> \o utf8_decode(Tail(Tail(bytes)))

----------------------------------------------------------------------------
(* Properties of the invocations *)

\* C13: the model or backend is invoked at most once per request: once at most
\* per item of a batch in handle, once per call of chat_with_mistral and of
\* get_ner; a failed invocation is the last of its call and ends it as an error.
NoAutomaticRetry ==
    /\ Len(calls) <= Len(data)
    /\ \A k \in 1..Len(calls) :
        /\ calls[k].item = k
        /\ calls[k].raised =>
            /\ k = Len(calls)
            /\ pc = "done"
            /\ ret.kind = "return"
            /\ AllErrors(ret.value)
    /\ chat_posts <= 1
    /\ chat_pc = "done" => chat_posts = 1
    /\ chat_ret.kind = "raise" => chat_pc = "done"
    /\ Len(ner_posts) <= 1
    /\ ner_ret.kind = "http_error" => (ner_pc = "done" /\ Len(ner_posts) = 1)

\* C13 witness: the invocation for the second item of a batch raised; the call
\* ended as an error after two invocations
NoAutomaticRetryWitness ==
    /\ HandleDone
    /\ Len(data) = 3
    /\ Len(calls) = 2
    /\ ~calls[1].raised
    /\ calls[2].raised
    /\ ret.kind = "return"
    /\ ret.value[1].status = "error"

\* C14: for every invocation that gave a result, input_tokens is the length of
\* the tokenized prompt, output_tokens is the length of the model's output
\* minus that of the prompt, total_tokens is their sum, and output_tokens >= 0.
TokenAccounting ==
    \A k \in 1..Len(results) :
        LET m == results[k].metrics
            prompt_length == Len(tokenize(processed_requests[k].text,
                                          Get(config, "max_length", DefaultMaxLength)))
        IN /\ m.input_tokens = prompt_length
           /\ m.output_tokens = Len(calls[k].outputs) - prompt_length
           /\ m.total_tokens = m.input_tokens + m.output_tokens
           /\ m.output_tokens >= 0
           /\ (pc = "done" /\ ~StageFailed) => ret.value[k].metadata.metrics = m

\* C14 witness: a prompt of six tokens cut to the four of max_length, and a
\* continuation of four tokens
TokenAccountingWitness ==
    /\ HandleDone /\ ~StageFailed
    /\ Len(results) >= 1
    /\ Len(processed_requests[1].text) = 6
    /\ results[1].metrics.input_tokens = 4
    /\ results[1].metrics.output_tokens = 4
    /\ results[1].metrics.total_tokens = 8

----------------------------------------------------------------------------
(* Properties of the stages *)

\* C15: while the initialized flag is false a handle call returns the error
\* response without running preprocess, the model or postprocess; the flag is
\* true only once initialize has run to its end (configuration and generation
\* defaults set); a success entry is returned only by an initialized handler.
InitializationGate ==
    /\ ~initialized =>
        /\ pc \in {"idle", "done"}
        /\ processed_requests = <<>>
        /\ results = <<>>
        /\ processed_results = <<>>
        /\ calls = <<>>
        /\ pc = "done" =>
            /\ ret.kind = "return"
            /\ AllErrors(ret.value)
            /\ ret.value[1].error = <<"Modele non initialise">>
    /\ initialized =>
        /\ config # None
        /\ generation_config # None
        /\ generation_config = generation_defaults(config)
    /\ (ret.kind = "return" /\ \E i \in 1..Len(ret.value) : ret.value[i].status = "success")
        => initialized

\* C15 witness: initialize raised after it loaded the configuration, and a
\* handle call on a batch of valid requests got the error response
InitializationGateWitness ==
    /\ ~initialized
    /\ config # None
    /\ pc = "done"
    /\ Len(data) = 2
    /\ \A i \in 1..Len(data) : item_text(i) # <<>>
    /\ ret.kind = "return"
    /\ ret.value[1].error = <<"Modele non initialise">>

\* C16: preprocess is over for the whole batch before the first invocation of
\* the model, and every invocation is made before postprocess builds an entry:
\* the model is invoked only when every item passed preprocess, and the k-th
\* invocation is for item k.
StageOrdering ==
    /\ pc = "preprocess" => (calls = <<>> /\ results = <<>> /\ processed_results = <<>>)
    /\ calls # <<>> =>
        /\ Len(processed_requests) = Len(data)
        /\ \A i \in 1..Len(data) : item_text(i) # <<>>
    /\ \A k \in 1..Len(calls) :
        /\ calls[k].item = k
        /\ calls[k].text = formatted_text(item_text(k))
    /\ pc = "inference" => processed_results = <<>>
    /\ (pc = "postprocess" \/ processed_results # <<>>) =>
        /\ Len(calls) = Len(data)
        /\ Len(results) = Len(data)

\* C16 witness: the three invocations of a batch of three are made, and
\* postprocess has built its first entry
StageOrderingWitness ==
    /\ pc = "postprocess"
    /\ Len(data) = 3
    /\ Len(calls) = 3
    /\ data[1] # data[2]
    /\ Len(processed_results) = 1

=============================================================================
